---- MODULE Spec2Model ----
(***************************************************************************)
(* bin/import_mls.py: the MLS importer.  Download the archive, extract it, *)
(* convert every FLAC named by a transcripts.txt to WAV, and write one CSV *)
(* manifest per split.                                                      *)
(*                                                                          *)
(* Text (paths, transcript lines, identifiers) is a sequence of characters; *)
(* a character is a one-character string, or "U+xxxx" for a code point      *)
(* outside ASCII.                                                           *)
(***************************************************************************)
EXTENDS Integers, Sequences, FiniteSets, TLC

(***************************************************************************)
(* Bounds of the model.                                                     *)
(***************************************************************************)
\* transcripts.txt files under one split (one per directory of a chain)
MaxFiles == 2
\* transcript lines under one split, over all its files
MaxLines == 2
\* runs of the whole script on the same data directory
MaxRuns == 2
\* length of a raw transcript handed to the normalisation
MaxNormLen == 3

SAMPLE_RATE == 16000

None == "None"

\* an optional value: absent, or present
Nothing == <<>>
Some(v) == <<v>>

(***************************************************************************)
(* Sequence helpers.                                                        *)
(***************************************************************************)
SeqsUpTo(S, n) == UNION {[1..k -> S] : k \in 0..n}

RECURSIVE Flatten(_)
Flatten(ss) == IF ss = <<>> THEN <<>> ELSE Head(ss) \o Flatten(Tail(ss))

IsPrefix(p, s) == Len(p) <= Len(s) /\ SubSeq(s, 1, Len(p)) = p

(***************************************************************************)
(* Python str operations used by the script.                                *)
(***************************************************************************)
\* str.find(ch): 0-based index of the first occurrence, -1 when absent
find(s, ch) ==
    IF \E i \in 1..Len(s) : s[i] = ch
    THEN (CHOOSE i \in 1..Len(s) : s[i] = ch /\ \A j \in 1..(i - 1) : s[j] # ch) - 1
    ELSE -1

\* a slice bound as Python resolves it: negative counts from the end, then clamp
SliceIndex(s, i) ==
    LET j == IF i < 0 THEN i + Len(s) ELSE i
    IN  IF j < 0 THEN 0 ELSE IF j > Len(s) THEN Len(s) ELSE j

\* s[:stop]
SliceTo(s, stop) == SubSeq(s, 1, SliceIndex(s, stop))

\* s[start:]
SliceFrom(s, start) == SubSeq(s, SliceIndex(s, start) + 1, Len(s))

\* str.split(sep): always at least one component
RECURSIVE split(_, _)
split(s, sep) ==
    LET i == find(s, sep)
    IN  IF i = -1 THEN <<s>>
        ELSE <<SubSeq(s, 1, i)>> \o split(SubSeq(s, i + 2, Len(s)), sep)

(***************************************************************************)
(* posixpath, as the script uses it.                                        *)
(***************************************************************************)
Sep == "/"

startswith(s, ch) == Len(s) > 0 /\ s[1] = ch

endswith(s, ch) == Len(s) > 0 /\ s[Len(s)] = ch

\* one step of os.path.join: an absolute component restarts the path
join2(path, b) ==
    IF startswith(b, Sep) THEN b
    ELSE IF path = <<>> \/ endswith(path, Sep) THEN path \o b
    ELSE path \o <<Sep>> \o b

RECURSIVE joinFrom(_, _)
joinFrom(path, ps) ==
    IF ps = <<>> THEN path ELSE joinFrom(join2(path, Head(ps)), Tail(ps))

\* os.path.join(a, *p), with parts = <<a>> \o p
os_path_join(parts) == joinFrom(Head(parts), Tail(parts))

\* sep.join(comps)
RECURSIVE sepjoin(_)
sepjoin(comps) ==
    IF comps = <<>> THEN <<>>
    ELSE IF Len(comps) = 1 THEN Head(comps)
    ELSE Head(comps) \o <<Sep>> \o sepjoin(Tail(comps))

Dot == <<".">>
DotDot == <<".", ".">>

\* the component loop of os.path.normpath
RECURSIVE normcomps(_, _, _)
normcomps(comps, new, rooted) ==
    IF comps = <<>> THEN new
    ELSE LET comp == Head(comps)
             rest == Tail(comps)
         IN  IF comp = <<>> \/ comp = Dot THEN normcomps(rest, new, rooted)
             ELSE IF comp # DotDot
                     \/ (~rooted /\ new = <<>>)
                     \/ (new # <<>> /\ new[Len(new)] = DotDot)
                  THEN normcomps(rest, Append(new, comp), rooted)
             ELSE IF new # <<>>
                  THEN normcomps(rest, SubSeq(new, 1, Len(new) - 1), rooted)
             ELSE normcomps(rest, new, rooted)

os_path_normpath(path) ==
    IF path = <<>> THEN Dot
    ELSE LET rooted == startswith(path, Sep)
             two == rooted /\ Len(path) >= 2 /\ path[2] = Sep
                    /\ ~(Len(path) >= 3 /\ path[3] = Sep)
             body == sepjoin(normcomps(split(path, Sep), <<>>, rooted))
             out == (IF two THEN <<Sep, Sep>> ELSE IF rooted THEN <<Sep>> ELSE <<>>)
                    \o body
         IN  IF out = <<>> THEN Dot ELSE out

\* the working directory of the process
Cwd == <<"/", "w">>

os_path_abspath(path) ==
    os_path_normpath(IF startswith(path, Sep) THEN path
                     ELSE os_path_join(<<Cwd, path>>))

\* os.path.split(x)[1]: what follows the last separator
RECURSIVE basename(_)
basename(x) ==
    LET i == find(x, Sep)
    IN  IF i = -1 THEN x ELSE basename(SubSeq(x, i + 2, Len(x)))

(***************************************************************************)
(* Transcript normalisation (lines 134-140).  The tables hold the Unicode   *)
(* data of the characters the model uses.                                   *)
(***************************************************************************)
\* full compatibility decomposition of one character
Decomposition(c) ==
    CASE c = "U+00E9" -> <<"e", "U+0301">>        \* e with acute
      [] c = "U+2103" -> <<"U+00B0", "C">>        \* DEGREE CELSIUS
      [] c = "U+00A8" -> <<" ", "U+0308">>        \* DIAERESIS
      [] c = "U+00A0" -> <<" ">>                  \* NO-BREAK SPACE
      [] OTHER -> <<c>>

\* canonical combining class
CombiningClass(c) ==
    CASE c = "U+0301" -> 230
      [] c = "U+0308" -> 230
      [] c = "U+0323" -> 220
      [] OTHER -> 0

\* canonical ordering: exchange adjacent marks while a pair is out of order
RECURSIVE CanonicalOrder(_)
CanonicalOrder(s) ==
    LET bad == {i \in 1..(Len(s) - 1) :
                    /\ CombiningClass(s[i + 1]) > 0
                    /\ CombiningClass(s[i]) > CombiningClass(s[i + 1])}
    IN  IF bad = {} THEN s
        ELSE LET i == CHOOSE j \in bad : \A k \in bad : j <= k
             IN  CanonicalOrder([s EXCEPT ![i] = s[i + 1], ![i + 1] = s[i]])

\* unicodedata.normalize("NFKD", s)
NFKD(s) == CanonicalOrder(Flatten([i \in 1..Len(s) |-> Decomposition(s[i])]))

\* a lone surrogate has no UTF-8 encoding
Encodable(c) == c # "U+D800"

\* .encode("utf-8", "ignore").decode("utf-8", "ignore")
RECURSIVE encode_decode(_)
encode_decode(s) ==
    IF s = <<>> THEN <<>>
    ELSE (IF Encodable(Head(s)) THEN <<Head(s)>> ELSE <<>>) \o encode_decode(Tail(s))

LowerOf(c) ==
    CASE c = "A" -> "a"
      [] c = "C" -> "c"
      [] c = "H" -> "h"
      [] OTHER -> c

\* str.lower()
lower(s) == [i \in 1..Len(s) |-> LowerOf(s[i])]

\* str.isspace() of one character
IsSpace(c) == c \in {" ", "\t", "\n", "\r", "U+00A0"}

\* str.strip()
RECURSIVE lstrip(_)
lstrip(s) == IF s # <<>> /\ IsSpace(Head(s)) THEN lstrip(Tail(s)) ELSE s

RECURSIVE rstrip(_)
rstrip(s) ==
    IF s # <<>> /\ IsSpace(s[Len(s)]) THEN rstrip(SubSeq(s, 1, Len(s) - 1)) ELSE s

strip(s) == lstrip(rstrip(s))

\* a slip: lower-casing before the decomposition
normalize_lower_first(t) == strip(encode_decode(NFKD(lower(t))))

\* lines 134-140
normalize(t) == strip(lower(encode_decode(NFKD(t))))

(***************************************************************************)
(* Names the script builds its paths from.                                  *)
(***************************************************************************)
\* sys.argv[1] and sys.argv[2]
DataDir == <<"d">>
Language == <<"e", "n">>

\* "mls_{}".format(language)
MlsName == <<"m", "l", "s", "_">> \o Language

\* line 28-30
MLS_URL == <<"h", "t", "t", "p", "s", ":", "/", "/", "d", "l", ".", "f", "b", "a", "i", "p", "u", "b", "l", "i", "c", "f", "i", "l", "e", "s", ".", "c", "o", "m", "/", "m", "l", "s", "/">> \o MlsName \o <<".", "t", "a", "r", ".", "g", "z">>

\* lines 32-33
filename_of(x) == basename(x)

\* line 46
MLS_DIR == <<"M", "L", "S">>

\* line 47
work_dir == os_path_join(<<DataDir, MLS_DIR>>)

\* the splits in the order lines 68-78 convert them
SplitNames == <<<<"t", "r", "a", "i", "n">>, <<"t", "e", "s", "t">>, <<"d", "e", "v">>>>
Splits == 1..3

\* the data_set and dest_dir arguments of lines 69, 73, 77
data_set(k) == os_path_join(<<MlsName, SplitNames[k]>>)
dest_dir(k) == os_path_join(<<MlsName, SplitNames[k] \o <<"-", "w", "a", "v">>>>)

\* lines 102-103
source_dir_of(extracted_dir, ds) == os_path_join(<<extracted_dir, ds>>)
target_dir_of(extracted_dir, dd) == os_path_join(<<extracted_dir, dd>>)

\* the root os.walk reports for the directory `depth` levels under top: the
\* extracted split is a chain top, top/s, top/s/s, ... of directories
SubDir == <<"s">>
RECURSIVE walk_root(_, _)
walk_root(top, depth) ==
    IF depth = 0 THEN top ELSE os_path_join(<<walk_root(top, depth - 1), SubDir>>)

(***************************************************************************)
(* The file system.  fs maps the absolute path of a regular file to its     *)
(* size; ds is the set of absolute paths of directories.                    *)
(***************************************************************************)
Exists(fs, ds, p) == os_path_abspath(p) \in (DOMAIN fs) \cup ds

\* os.path.getsize; -1 stands for the OSError of a missing file
os_path_getsize(fs, p) ==
    IF os_path_abspath(p) \in DOMAIN fs THEN fs[os_path_abspath(p)] ELSE -1

WriteFile(fs, p, size) ==
    [q \in (DOMAIN fs) \cup {os_path_abspath(p)} |->
        IF q = os_path_abspath(p) THEN size ELSE fs[q]]

\* size of the WAV sox makes of a FLAC: the decoded audio is longer
transcoded_size(fs, flac_file) == os_path_getsize(fs, flac_file) + 1

(***************************************************************************)
(* The body of the loop over transcript lines, lines 126-152.               *)
(***************************************************************************)
Tab == "\t"

\* lines 128-140: identifier and normalised transcript of a line
ParseLine(line) ==
    LET first_space == find(line, Tab)
    IN  [seqid |-> SliceTo(line, first_space),
         transcript |-> normalize(SliceFrom(line, first_space + 1))]

\* a slip: the LibriSpeech layout, without the audio directory
flac_path_no_audio(root, seqid) ==
    LET split_seq == split(seqid, "_")
    IN  os_path_join(<<root, split_seq[1], split_seq[2], seqid \o <<".", "f", "l", "a", "c">>>>)

\* line 143-144; the caller has checked that split_seq[1] exists
flac_path(root, seqid) ==
    LET split_seq == split(seqid, "_")
    IN  os_path_join(<<root, <<"a", "u", "d", "i", "o">>, split_seq[1], split_seq[2], seqid \o <<".", "f", "l", "a", "c">>>>)

\* line 145
wav_path(target_dir, seqid) == os_path_join(<<target_dir, seqid \o <<".", "w", "a", "v">>>>)

\* line 146
needs_build(fs, ds, wav_file) == ~Exists(fs, ds, wav_file)

\* a slip: a missing input is not an error and leaves an empty output
Transformer_build_lenient(fs, ds, flac_file, wav_file) ==
    IF Exists(fs, ds, flac_file)
    THEN [ok |-> TRUE, fs |-> WriteFile(fs, wav_file, transcoded_size(fs, flac_file))]
    ELSE [ok |-> TRUE, fs |-> WriteFile(fs, wav_file, 0)]

\* lines 147-149: sox fails on a missing input and writes nothing
Transformer_build(fs, ds, flac_file, wav_file) ==
    IF Exists(fs, ds, flac_file)
    THEN [ok |-> TRUE, fs |-> WriteFile(fs, wav_file, transcoded_size(fs, flac_file))]
    ELSE [ok |-> FALSE, fs |-> fs]

\* a slip: the row names the file without its directory
manifest_row_basename(wav_file, wav_filesize, transcript) ==
    <<os_path_abspath(filename_of(wav_file)), wav_filesize, transcript>>

\* the tuple of line 152
manifest_row(wav_file, wav_filesize, transcript) ==
    <<os_path_abspath(wav_file), wav_filesize, transcript>>

\* a slip: a row already in the list is not added again
append_row_dedup(files, row) ==
    IF \E i \in 1..Len(files) : files[i] = row THEN files ELSE Append(files, row)

\* files.append, line 152
append_row(files, row) == Append(files, row)

\* a slip: each split is followed by the writing of its CSV
after_split_write_each(k) == "write"

\* lines 68-90: the three conversions, then the three CSVs
after_split(k) == IF k < 3 THEN "convert" ELSE "write"

(***************************************************************************)
(* Inputs: transcript lines and extracted trees.                            *)
(***************************************************************************)
LineSet ==
    { <<"a", "_", "b", "\t", "H", "i", "\n">>,          \* identifier a_b, transcript "Hi"
      <<"/", "a", "_", "b", "\t", "A", "\n">>,      \* identifier /a_b, transcript "A"
      <<"a", "_", "b", "\n">>,              \* no tab, the text still has an underscore
      <<"\n">> }                \* an empty line

\* a split's transcripts.txt files in the order os.walk meets them: the file
\* of the directory at `depth`, with its lines
RECURSIVE LinesBefore(_, _, _)
LinesBefore(order, count, i) ==
    IF i = 1 THEN 0 ELSE LinesBefore(order, count, i - 1) + count[order[i - 1]]

Tree(depths, all, count) ==
    LET order == [i \in 1..Cardinality(depths) |->
                    CHOOSE d \in depths : Cardinality({e \in depths : e < d}) = i - 1]
    IN  [i \in 1..Cardinality(depths) |->
            [depth |-> order[i],
             lines |-> SubSeq(all, LinesBefore(order, count, i) + 1,
                              LinesBefore(order, count, i) + count[order[i]])]]

RECURSIVE SumOver(_, _)
SumOver(f, S) ==
    IF S = {} THEN 0 ELSE LET x == CHOOSE y \in S : TRUE IN f[x] + SumOver(f, S \ {x})

Trees ==
    { Tree(depths, all, count) :
        <<depths, all, count>> \in
            { <<D, a, c>> \in (SUBSET (0..(MaxFiles - 1)))
                              \X SeqsUpTo(LineSet, MaxLines)
                              \X [0..(MaxFiles - 1) -> 0..MaxLines] :
                /\ \A d \in 0..(MaxFiles - 1) : d \notin D => c[d] = 0
                /\ SumOver(c, D) = Len(a) } }

\* the identifiers, FLAC and WAV paths the lines of a tree lead to
TreeLines(top, tree) ==
    { <<walk_root(top, tree[i].depth), tree[i].lines[j]>> :
        <<i, j>> \in { <<i, j>> \in (1..Len(tree)) \X (1..MaxLines) :
                        j <= Len(tree[i].lines) } }

HasTwoParts(seqid) == Len(split(seqid, "_")) >= 2

TreeFlacs(top, tree) ==
    { os_path_abspath(flac_path(rl[1], ParseLine(rl[2]).seqid)) :
        rl \in { x \in TreeLines(top, tree) : HasTwoParts(ParseLine(x[2]).seqid) } }

TreeWavs(top, target, tree) ==
    { os_path_abspath(wav_path(target, ParseLine(rl[2]).seqid)) :
        rl \in { x \in TreeLines(top, tree) : HasTwoParts(ParseLine(x[2]).seqid) } }

\* the trees the whole-script specification extracts
ScriptTrees ==
    { <<>>,
      <<[depth |-> 0, lines |-> << <<"a", "_", "b", "\t", "H", "i", "\n">> >>]>>,
      <<[depth |-> 1, lines |-> << <<"/", "a", "_", "b", "\t", "A", "\n">> >>]>>,
      <<[depth |-> 0, lines |-> << <<"\n">> >>]>> }

(***************************************************************************)
(* State.                                                                   *)
(***************************************************************************)
VARIABLES
    pc,          \* where the script is: start, extract, convert, walk,
                 \* returned, write, done, crashed
    error,       \* the exception that ended the run, or None
    run,         \* number of the current run on the data directory
    archive,     \* content of the remote archive: [marker, trees, flacs]
    fs,          \* regular files on disk: absolute path -> size
    ds,          \* directories on disk (absolute paths)
    tree,        \* transcripts.txt files on disk, per split, in walk order
    csv,         \* CSV files on disk, per split: header and rows, if written
    mls_all,     \* the path maybe_download returned
    cur,         \* the split being converted or written
    fi,          \* index in the walk of the transcripts.txt being read
    li,          \* lines of it already processed
    files,       \* the list of rows of the running conversion
    result,      \* the DataFrame a conversion returned
    frames,      \* the script's train, test, dev variables
    last,        \* what the last loop iteration saw and did
    netCalls,    \* downloads of this run
    extractLog,  \* calls of _maybe_extract of this run: marker before, extracted
    buildLog,    \* calls of Transformer.build of this run
    written,     \* splits whose CSV this run has written
    nIn,         \* a raw transcript
    nOut         \* its successive normalisations

vars == <<pc, error, run, archive, fs, ds, tree, csv, mls_all, cur, fi, li, files,
          result, frames, last, netCalls, extractLog, buildLog, written, nIn, nOut>>

diskVars == <<fs, ds, tree, csv>>
loopVars == <<fi, li, files, last>>
logVars == <<netCalls, extractLog, buildLog, written>>
normVars == <<nIn, nOut>>

NoFiles == [q \in {} |-> 0]

archive_path == os_path_join(<<DataDir, filename_of(MLS_URL)>>)

source_dir(k) == source_dir_of(DataDir, data_set(k))
target_dir(k) == target_dir_of(DataDir, dest_dir(k))

\* the header of the DataFrame, lines 154-156
Columns == <<"wav_filename", "wav_filesize", "transcript">>

(***************************************************************************)
(* The whole script: _download_and_preprocess_data.                         *)
(***************************************************************************)
Init ==
    /\ pc = "start"
    /\ error = None
    /\ run = 1
    /\ \E marker \in BOOLEAN, trees \in [Splits -> ScriptTrees], audio \in BOOLEAN :
          archive = [marker |-> marker,
                     trees |-> trees,
                     flacs |-> IF audio
                               THEN UNION {TreeFlacs(source_dir(k), trees[k]) : k \in Splits}
                               ELSE {}]
    /\ \E have \in BOOLEAN :
          fs = IF have THEN WriteFile(NoFiles, archive_path, 9) ELSE NoFiles
    /\ \E have \in BOOLEAN :
          ds = IF have THEN {os_path_abspath(work_dir)} ELSE {}
    /\ tree = [k \in Splits |-> <<>>]
    /\ csv = [k \in Splits |-> Nothing]
    /\ mls_all = Nothing
    /\ cur = 1
    /\ fi = 0
    /\ li = 0
    /\ files = <<>>
    /\ result = Nothing
    /\ frames = [k \in Splits |-> Nothing]
    /\ last = Nothing
    /\ netCalls = 0
    /\ extractLog = <<>>
    /\ buildLog = <<>>
    /\ written = {}
    /\ nIn = <<>>
    /\ nOut = <<>>

\* maybe_download, lines 36-38: fetch the archive unless the file is there
Download ==
    /\ pc = "start"
    /\ IF Exists(fs, ds, archive_path)
       THEN UNCHANGED <<fs, netCalls>>
       ELSE /\ fs' = WriteFile(fs, archive_path, 9)
            /\ netCalls' = netCalls + 1
    /\ mls_all' = Some(archive_path)
    /\ pc' = "extract"
    /\ UNCHANGED <<error, run, archive, ds, tree, csv, cur, loopVars, result, frames,
                   extractLog, buildLog, written, normVars>>

\* maybe_download when the network fails: the exception ends the script
DownloadFails ==
    /\ pc = "start"
    /\ ~Exists(fs, ds, archive_path)
    /\ netCalls' = netCalls + 1
    /\ pc' = "crashed"
    /\ error' = "DownloadError"
    /\ UNCHANGED <<run, archive, diskVars, mls_all, cur, loopVars, result, frames,
                   extractLog, buildLog, written, normVars>>

\* tar.extractall(data_dir): every entry of the archive lands under data_dir
extractall(d, a) ==
    [fs |-> [q \in (DOMAIN d.fs) \cup a.flacs |-> IF q \in a.flacs THEN 3 ELSE d.fs[q]],
     ds |-> d.ds \cup (IF a.marker THEN {os_path_abspath(work_dir)} ELSE {})
                 \cup {os_path_abspath(os_path_join(<<DataDir, MlsName>>))},
     tree |-> a.trees]

\* _maybe_extract, lines 93-98, as called at lines 49-51
MaybeExtract ==
    /\ pc = "extract"
    /\ LET present == Exists(fs, ds, os_path_join(<<DataDir, MLS_DIR>>))
           out == extractall([fs |-> fs, ds |-> ds], archive)
       IN  /\ extractLog' = Append(extractLog, [before |-> present, extracted |-> ~present])
           /\ IF present
              THEN UNCHANGED <<fs, ds, tree>>
              ELSE /\ fs' = out.fs
                   /\ ds' = out.ds
                   /\ tree' = out.tree
    /\ pc' = "convert"
    /\ cur' = 1
    /\ UNCHANGED <<error, run, archive, csv, mls_all, loopVars, result, frames,
                   netCalls, buildLog, written, normVars>>

(***************************************************************************)
(* _convert_audio_and_split_sentences, lines 101-156.                       *)
(***************************************************************************)
\* lines 102-106 and 121: the target directory is made with its parents, the
\* list is empty
ConvertCall ==
    /\ pc = "convert"
    /\ ds' = ds \cup {os_path_abspath(target_dir(cur)),
                      os_path_abspath(os_path_join(<<DataDir, MlsName>>)),
                      os_path_abspath(DataDir)}
    /\ files' = <<>>
    /\ fi' = 0
    /\ li' = 0
    /\ last' = Nothing
    /\ pc' = "walk"
    /\ UNCHANGED <<error, run, archive, fs, tree, csv, mls_all, cur, result, frames,
                   logVars, normVars>>

AtEndOfFile == IF fi = 0 THEN TRUE ELSE li = Len(tree[cur][fi].lines)

\* lines 122-125: os.walk reaches the next transcripts.txt
NextFile ==
    /\ pc = "walk"
    /\ AtEndOfFile
    /\ fi < Len(tree[cur])
    /\ fi' = fi + 1
    /\ li' = 0
    /\ UNCHANGED <<pc, error, run, archive, diskVars, mls_all, cur, files, result,
                   frames, last, logVars, normVars>>

\* what one iteration of the loop of lines 126-152 does to the files, the
\* list and the log
LoopBody(root, tdir, line) ==
    LET p == ParseLine(line)
        seen == [line |-> line, root |-> root, seqid |-> p.seqid, flac_file |-> <<>>,
                 flac_there |-> FALSE, wav_there |-> FALSE, rows |-> Len(files)]
    IN  IF ~HasTwoParts(p.seqid)
        THEN [error |-> "IndexError", fs |-> fs, files |-> files, built |-> <<>>,
              last |-> seen]
        ELSE
        LET flac_file == flac_path(root, p.seqid)
            wav_file == wav_path(tdir, p.seqid)
            build == needs_build(fs, ds, wav_file)
            tfm == IF build
                   THEN Transformer_build(fs, ds, flac_file, wav_file)
                   ELSE [ok |-> TRUE, fs |-> fs]
            wav_filesize == os_path_getsize(tfm.fs, wav_file)
            seen2 == [seen EXCEPT !.flac_file = flac_file,
                                  !.flac_there = Exists(fs, ds, flac_file),
                                  !.wav_there = Exists(fs, ds, wav_file)]
            log == IF build
                   THEN <<[input |-> flac_file, output |-> os_path_abspath(wav_file),
                           rate |-> SAMPLE_RATE]>>
                   ELSE <<>>
        IN  IF ~tfm.ok
            THEN [error |-> "SoxError", fs |-> fs, files |-> files, built |-> log,
                  last |-> seen2]
            ELSE IF wav_filesize = -1
            THEN [error |-> "OSError", fs |-> tfm.fs, files |-> files, built |-> log,
                  last |-> seen2]
            ELSE [error |-> None, fs |-> tfm.fs,
                  files |-> append_row(files,
                                       manifest_row(wav_file, wav_filesize, p.transcript)),
                  built |-> log, last |-> seen2]

\* lines 126-152: one line of the open transcripts.txt
ProcessLine ==
    /\ pc = "walk"
    /\ fi > 0
    /\ li < Len(tree[cur][fi].lines)
    /\ LET out == LoopBody(walk_root(source_dir(cur), tree[cur][fi].depth),
                           target_dir(cur), tree[cur][fi].lines[li + 1])
       IN  /\ fs' = out.fs
           /\ files' = out.files
           /\ buildLog' = buildLog \o out.built
           /\ last' = Some(out.last)
           /\ error' = out.error
           /\ pc' = IF out.error = None THEN "walk" ELSE "crashed"
    /\ li' = li + 1
    /\ UNCHANGED <<run, archive, ds, tree, csv, mls_all, cur, fi, result, frames,
                   netCalls, extractLog, written, normVars>>

\* lines 154-156: the walk is over, the rows are returned as a DataFrame
ConvertReturn ==
    /\ pc = "walk"
    /\ AtEndOfFile
    /\ fi = Len(tree[cur])
    /\ result' = Some(files)
    /\ pc' = "returned"
    /\ UNCHANGED <<error, run, archive, diskVars, mls_all, cur, loopVars, frames,
                   logVars, normVars>>

(***************************************************************************)
(* Back in the script.                                                      *)
(***************************************************************************)
\* lines 68-79: the DataFrame is bound to train, test or dev
Assign ==
    /\ pc = "returned"
    /\ frames' = [frames EXCEPT ![cur] = result]
    /\ pc' = after_split(cur)
    /\ cur' = IF after_split(cur) = "convert" THEN cur + 1
              ELSE CHOOSE k \in Splits \ written : \A j \in Splits \ written : k <= j
    /\ result' = Nothing
    /\ UNCHANGED <<error, run, archive, diskVars, mls_all, loopVars, logVars, normVars>>

\* lines 82-90: to_csv of one split, index=False
WriteCsv ==
    /\ pc = "write"
    /\ csv' = [csv EXCEPT ![cur] = Some(<<Columns>> \o frames[cur][1])]
    /\ written' = written \cup {cur}
    /\ IF cur = 3 THEN pc' = "done" /\ cur' = cur
       ELSE IF frames[cur + 1] = Nothing THEN pc' = "convert" /\ cur' = cur + 1
       ELSE pc' = "write" /\ cur' = cur + 1
    /\ UNCHANGED <<error, run, archive, fs, ds, tree, mls_all, loopVars, result, frames,
                   netCalls, extractLog, buildLog, normVars>>

\* the script is started again on the same data directory, same language
Rerun ==
    /\ pc = "done"
    /\ run < MaxRuns
    /\ run' = run + 1
    /\ pc' = "start"
    /\ mls_all' = Nothing
    /\ cur' = 1
    /\ fi' = 0
    /\ li' = 0
    /\ files' = <<>>
    /\ last' = Nothing
    /\ result' = Nothing
    /\ frames' = [k \in Splits |-> Nothing]
    /\ netCalls' = 0
    /\ extractLog' = <<>>
    /\ buildLog' = <<>>
    /\ written' = {}
    /\ UNCHANGED <<error, archive, diskVars, normVars>>

Next ==
    \/ Download
    \/ DownloadFails
    \/ MaybeExtract
    \/ ConvertCall
    \/ NextFile
    \/ ProcessLine
    \/ ConvertReturn
    \/ Assign
    \/ WriteCsv
    \/ Rerun

Spec == Init /\ [][Next]_vars

(***************************************************************************)
(* One call of _convert_audio_and_split_sentences on any extracted split,   *)
(* with any of the FLAC files present and any of the WAV files left by an   *)
(* earlier run.                                                             *)
(***************************************************************************)
InitConvert ==
    /\ pc = "convert"
    /\ error = None
    /\ run = 1
    /\ archive = [marker |-> FALSE, trees |-> [k \in Splits |-> <<>>], flacs |-> {}]
    /\ cur = 1
    /\ \E t \in Trees :
          /\ tree = [k \in Splits |-> IF k = cur THEN t ELSE <<>>]
          /\ \E flacs \in SUBSET TreeFlacs(source_dir(cur), t),
                wavs \in SUBSET TreeWavs(source_dir(cur), target_dir(cur), t) :
                /\ fs = [q \in flacs \cup wavs |-> IF q \in wavs THEN 1 ELSE 3]
                /\ ds = IF wavs = {} THEN {} ELSE {os_path_abspath(target_dir(cur))}
    /\ csv = [k \in Splits |-> Nothing]
    /\ mls_all = Some(archive_path)
    /\ fi = 0
    /\ li = 0
    /\ files = <<>>
    /\ result = Nothing
    /\ frames = [k \in Splits |-> Nothing]
    /\ last = Nothing
    /\ netCalls = 0
    /\ extractLog = <<>>
    /\ buildLog = <<>>
    /\ written = {}
    /\ nIn = <<>>
    /\ nOut = <<>>

NextConvert ==
    \/ ConvertCall
    \/ NextFile
    \/ ProcessLine
    \/ ConvertReturn

SpecConvert == InitConvert /\ [][NextConvert]_vars

(***************************************************************************)
(* The normalisation of lines 134-140 on any raw transcript, applied to its *)
(* own result a second time.                                                *)
(***************************************************************************)
\* characters of a raw transcript: the file is decoded as UTF-8 (line 125),
\* which yields no lone surrogate
NormAlphabet ==
    {"A", "a", " ", "U+00E9", "U+2103", "U+00A8", "U+00A0", "U+0323", "U+0301"}

InitNormalize ==
    /\ pc = "normalize"
    /\ error = None
    /\ run = 1
    /\ archive = [marker |-> FALSE, trees |-> [k \in Splits |-> <<>>], flacs |-> {}]
    /\ fs = NoFiles
    /\ ds = {}
    /\ tree = [k \in Splits |-> <<>>]
    /\ csv = [k \in Splits |-> Nothing]
    /\ mls_all = Nothing
    /\ cur = 1
    /\ fi = 0
    /\ li = 0
    /\ files = <<>>
    /\ result = Nothing
    /\ frames = [k \in Splits |-> Nothing]
    /\ last = Nothing
    /\ netCalls = 0
    /\ extractLog = <<>>
    /\ buildLog = <<>>
    /\ written = {}
    /\ nIn \in SeqsUpTo(NormAlphabet, MaxNormLen)
    /\ nOut = <<>>

\* lines 134-140, on the raw transcript and then on what it returned
Normalize ==
    /\ pc = "normalize"
    /\ Len(nOut) < 2
    /\ nOut' = Append(nOut, normalize(IF nOut = <<>> THEN nIn ELSE nOut[Len(nOut)]))
    /\ UNCHANGED <<pc, error, run, archive, diskVars, mls_all, cur, loopVars, result,
                   frames, logVars, nIn>>

SpecNormalize == InitNormalize /\ [][Normalize]_vars

(***************************************************************************)
(* Properties.                                                              *)
(***************************************************************************)
Extracted == \E i \in 1..Len(extractLog) : extractLog[i].extracted

MarkerThere == Exists(fs, ds, os_path_join(<<DataDir, MLS_DIR>>))

\* C1: a run that follows a successful run on the same data directory and
\* language downloads nothing, extracts nothing and transcodes nothing.
C1_RerunDoesNothing ==
    run >= 2 => netCalls = 0 /\ ~Extracted /\ buildLog = <<>>

\* C2: once _maybe_extract has returned, the marker directory exists; if it
\* was there before the call nothing was extracted, otherwise every entry of
\* the archive is on disk.
C2_ExtractPostcondition ==
    extractLog # <<>> =>
        LET call == extractLog[Len(extractLog)]
        IN  /\ MarkerThere
            /\ call.before => ~call.extracted
            /\ ~call.before => /\ call.extracted
                               /\ archive.flacs \subseteq DOMAIN fs
                               /\ tree = archive.trees

InLoop == last # Nothing

Seen == last[1]

DerivedFlac == InLoop /\ Seen.flac_file # <<>>

\* C3 as stated: a line whose source FLAC is missing ends the run with an
\* error, whether or not its destination WAV exists.
C3_MissingFlacAlwaysFatal ==
    (DerivedFlac /\ ~Seen.flac_there) => pc = "crashed"

\* C3 as amended: a line whose source FLAC is missing and whose destination
\* WAV does not exist ends the run with the transcoder's error and adds no
\* row; a line whose destination WAV exists adds its row without an error,
\* the source FLAC is not looked at.
C3_MissingFlacFatalWithoutWav ==
    /\ (DerivedFlac /\ ~Seen.flac_there /\ ~Seen.wav_there) =>
            pc = "crashed" /\ error = "SoxError" /\ Len(files) = Seen.rows
    /\ (DerivedFlac /\ Seen.wav_there) =>
            pc # "crashed" /\ error = None /\ Len(files) = Seen.rows + 1

C3_Witness ==
    /\ DerivedFlac
    /\ ~Seen.flac_there
    /\ ~Seen.wav_there
    /\ pc = "crashed"
    /\ Seen.rows = 1

\* C4: a line without a tab ends the run with an error and adds no row.
C4_NoTabFatal ==
    (InLoop /\ find(Seen.line, Tab) = -1) =>
        pc = "crashed" /\ Len(files) = Seen.rows

\* C5: every row of the list names a WAV file that is on disk, with the size
\* the file has; a failed transcode adds no row.
C5_RowsNameExistingWav ==
    /\ \A i \in 1..Len(files) :
          /\ files[i][1] \in DOMAIN fs
          /\ files[i][2] = fs[files[i][1]]
    /\ error = "SoxError" => Len(files) = Seen.rows

C5_Witness ==
    /\ pc = "walk"
    /\ Len(files) = 2
    /\ files[1][2] # files[2][2]
    /\ Len(buildLog) = 1

Parts(seqid) == split(seqid, "_")

\* a path component that os.path.join appends behind a separator
Plain(comp) == comp # <<>> /\ ~startswith(comp, Sep)

AudioPath(dir, seqid) ==
    dir \o <<"/", "a", "u", "d", "i", "o", "/">> \o Parts(seqid)[1] \o <<Sep>> \o Parts(seqid)[2] \o <<Sep>>
        \o seqid \o <<".", "f", "l", "a", "c">>

\* C6 as stated: the source audio of an identifier c0_c1_... is
\* <split source directory>/audio/c0/c1/<identifier>.flac, wherever under the
\* split the transcripts.txt lies.
C6_FlacUnderSplitAudio ==
    DerivedFlac => Seen.flac_file = AudioPath(source_dir(cur), Seen.seqid)

\* C6 as amended: for an identifier whose first two components are not empty
\* and do not begin with a slash, the source audio is
\* <directory of the transcripts.txt>/audio/c0/c1/<identifier>.flac.
C6_FlacUnderTranscriptDir ==
    (DerivedFlac /\ Plain(Parts(Seen.seqid)[1]) /\ Plain(Parts(Seen.seqid)[2])) =>
        Seen.flac_file = AudioPath(Seen.root, Seen.seqid)

C6_Witness ==
    /\ DerivedFlac
    /\ Plain(Parts(Seen.seqid)[1])
    /\ Len(Parts(Seen.seqid)) = 2
    /\ Seen.root # source_dir(cur)
    /\ Seen.flac_there
    /\ error = None

\* C7: normalising a normalised transcript changes nothing.
C7_NormalizeIdempotent ==
    Len(nOut) = 2 => nOut[2] = nOut[1]

C7_Witness ==
    /\ Len(nOut) = 2
    /\ Len(nIn) = MaxNormLen
    /\ nOut[1] # nIn
    /\ Len(nOut[1]) > Len(nIn)

\* C8: the transcripts.txt and FLAC files a conversion reads lie under the
\* marker directory <data_dir>/MLS that _maybe_extract tests.
C8_WalkedTreeUnderMarker ==
    /\ pc = "walk" => IsPrefix(work_dir \o <<Sep>>, source_dir(cur))
    /\ DerivedFlac =>
          IsPrefix(os_path_abspath(work_dir) \o <<Sep>>, os_path_abspath(Seen.flac_file))

\* the lines of a split in the order the walk reads them
AllLines(t) == Flatten([i \in 1..Len(t) |-> t[i].lines])

RowPath(line) == os_path_abspath(wav_path(target_dir(cur), ParseLine(line).seqid))

\* C9: a conversion that returns has made one row per line of every
\* transcripts.txt under the split, in walk order and then line order, a row
\* for each occurrence of a repeated identifier; no WAV is transcoded twice,
\* and a split without transcripts.txt gives no row.
C9_OneRowPerLine ==
    pc = "returned" =>
        LET lines == AllLines(tree[cur])
            rows == result[1]
        IN  /\ Len(rows) = Len(lines)
            /\ \A i \in 1..Len(lines) :
                  /\ rows[i][1] = RowPath(lines[i])
                  /\ rows[i][3] = ParseLine(lines[i]).transcript
            /\ \A i, j \in 1..Len(buildLog) :
                  buildLog[i].output = buildLog[j].output => i = j

C9_Witness ==
    /\ pc = "returned"
    /\ Len(tree[cur]) = 2
    /\ Len(result[1]) = 2
    /\ result[1][1] = result[1][2]
    /\ Len(buildLog) = 1

\* C10 as stated: when the conversion of a split starts, the CSV of every
\* split converted before it has been written.
C10_CsvBeforeNextSplit ==
    pc = "convert" => \A k \in 1..(cur - 1) : k \in written

\* C10 as amended: the rows of the three splits are held together; no CSV is
\* written before all three conversions have returned, and the CSVs are then
\* written in the order train, test, dev.
C10_CsvAfterAllSplits ==
    /\ pc \in {"convert", "walk", "returned"} => written = {}
    /\ written # {} => \A k \in Splits : frames[k] # Nothing
    /\ \A k \in written : \A j \in 1..k : j \in written

C10_Witness ==
    /\ pc = "write"
    /\ written = {1}
    /\ \A k \in Splits : frames[k] # Nothing /\ frames[k][1] # <<>>

====
